---- MODULE Spec2Model ----
(***************************************************************************)
(* Task-management REST backend: JWT auth middleware, auth controller      *)
(* (register / login / profile) and ownership-scoped task CRUD over two    *)
(* document collections (users, tasks).                                    *)
(*                                                                         *)
(* Each HTTP request occupies a slot and advances through its handler one  *)
(* persistence call (await) at a time; the synchronous code that follows   *)
(* a persistence call runs in the same step.                               *)
(*                                                                         *)
(* Strings whose content the code inspects (name, email, password, title)  *)
(* are sequences of one-character strings.  Strings that are only compared *)
(* or tested for truthiness (status) are one-element sequences.            *)
(***************************************************************************)
EXTENDS Integers, Sequences, FiniteSets, TLC

(***************************************************************************)
(* Bounds of the model                                                     *)
(***************************************************************************)
NumSlots == 2
MaxTasks == 2
MaxTasksAuth == 1
NumSalts == 1
MaxClock == 30
DaysPerTick == 15

(***************************************************************************)
(* JavaScript values                                                       *)
(***************************************************************************)
\* a field that is missing from a body / query (JS undefined)
Undefined == <<"undefined">>
\* if (x) ... : undefined and the empty string are falsy
Truthy(v) == v /= Undefined /\ v /= <<>>
\* a || b
OrElse(a, b) == IF Truthy(a) THEN a ELSE b

IsSpace(c) == c \in {" "}

RECURSIVE TrimStart(_)
TrimStart(s) ==
    IF s /= <<>> /\ IsSpace(Head(s)) THEN TrimStart(Tail(s)) ELSE s

RECURSIVE TrimEnd(_)
TrimEnd(s) ==
    IF s /= <<>> /\ IsSpace(s[Len(s)]) THEN TrimEnd(SubSeq(s, 1, Len(s) - 1)) ELSE s

\* String.prototype.trim
Trim(s) == TrimEnd(TrimStart(s))

(***************************************************************************)
(* Validation helpers (validation.util)                                    *)
(***************************************************************************)
\* /^[^\s@]+@[^\s@]+\.[^\s@]+$/ : exactly one "@", no whitespace, a
\* non-empty local part, and a "." after the "@" with at least one
\* character on each side of it.
validateEmail(email) ==
    \E i \in 1..Len(email) :
        /\ email[i] = "@"
        /\ \A k \in 1..Len(email) : k /= i => (email[k] /= "@" /\ ~IsSpace(email[k]))
        /\ i > 1
        /\ \E j \in (i + 2)..(Len(email) - 1) : email[j] = "."

MinPasswordLen == 6

validatePassword(password) ==
    LET errors == IF Len(password) < MinPasswordLen
                  THEN <<"Password must be at least 6 characters long">>
                  ELSE <<>>
    IN  [valid |-> errors = <<>>, errors |-> errors]

MinNameLen == 2

validateName(name) == Truthy(name) /\ Len(Trim(name)) >= MinNameLen

\* (mutant) a check that does not trim
validateTaskTitle_NoTrim(title) == Truthy(title) /\ Len(title) > 0

validateTaskTitle(title) == Truthy(title) /\ Len(Trim(title)) > 0

(***************************************************************************)
(* bcrypt (user.model)                                                     *)
(***************************************************************************)
\* bcrypt.genSalt draws a random salt
Salts == 1..NumSalts

\* bcrypt.hash(v, salt): a salted one-way digest, written as the term
\* <<"$2a$", salt, v>>
bcryptHash(v, salt) == <<"$2a$", salt, v>>

IsHash(v) == Len(v) = 3 /\ v[1] = "$2a$"

\* bcrypt.compare(entered, stored)
bcryptCompare(entered, stored) == IsHash(stored) /\ stored[3] = entered

(***************************************************************************)
(* JSON web tokens (jsonwebtoken)                                          *)
(***************************************************************************)
\* process.env.JWT_SECRET when it is not set
Unset == "unset"
ConfiguredSecret == "configured_secret"
DefaultSecret == "default_secret"

ExpiresInDays == 30

\* jwt.sign({id}, key, {expiresIn: "30d"}) at time t (in days)
jwtSign(id, key, t) ==
    [fmt |-> "jwt", id |-> id, iat |-> t, exp |-> t + ExpiresInDays, key |-> key]

\* a string that is no JSON web token
JunkToken == [fmt |-> "junk", id |-> 0, iat |-> 0, exp |-> 0, key |-> "none"]

\* (mutant) the issuer always signs with the hardcoded default
generateToken_DefaultKey(id, env, t) == jwtSign(id, DefaultSecret, t)

\* generateToken(id)
generateToken(id, env, t) ==
    jwtSign(id, IF env /= Unset THEN env ELSE DefaultSecret, t)

\* (mutant) verification that does not look at the expiry
jwtVerify_IgnoresExpiry(parts, key, t) ==
    IF Len(parts) < 2 THEN [ok |-> FALSE, id |-> 0]
    ELSE LET token == parts[2] IN
         IF key = Unset \/ token.fmt /= "jwt" \/ token.key /= key
         THEN [ok |-> FALSE, id |-> 0]
         ELSE [ok |-> TRUE, id |-> token.id]

\* jwt.verify(token, key) at time t, token = authorization.split(" ")[1]:
\* throws (ok = FALSE) on a missing token, a missing key, a malformed
\* token, a signature made with another key, or an expired token;
\* otherwise returns the payload.
jwtVerify(parts, key, t) ==
    IF Len(parts) < 2 THEN [ok |-> FALSE, id |-> 0]
    ELSE LET token == parts[2] IN
         IF \/ key = Unset
            \/ token.fmt /= "jwt"
            \/ token.key /= key
            \/ t >= token.exp
         THEN [ok |-> FALSE, id |-> 0]
         ELSE [ok |-> TRUE, id |-> token.id]

(***************************************************************************)
(* Response envelope (response.util)                                       *)
(***************************************************************************)
Null == <<"null">>

sendSuccess(statusCode, data, message) ==
    [status |-> statusCode, success |-> TRUE, data |-> data,
     message |-> message, errors |-> Undefined]

sendError(statusCode, message, errors) ==
    [status |-> statusCode, success |-> FALSE, data |-> Undefined,
     message |-> message, errors |-> errors]

NoResponse ==
    [status |-> 0, success |-> FALSE, data |-> Undefined,
     message |-> "", errors |-> Undefined]

(***************************************************************************)
(* State                                                                   *)
(***************************************************************************)
VARIABLES
    users,       \* the User collection: users[i] is the document with _id i
    tasks,       \* the Task collection: a set of documents
    nextTaskId,  \* the _id the next inserted task gets
    now,         \* the clock, in days
    secret,      \* process.env.JWT_SECRET
    issued,      \* the tokens that responses have handed to clients
    registered,  \* the emails a registration has succeeded for
    req          \* req[s]: the request in slot s and how far its handler got

vars == <<users, tasks, nextTaskId, now, secret, issued, registered, req>>

NoUser == 0
NoDoc == [_id |-> 0]

EmptyBody ==
    [name |-> Undefined, email |-> Undefined, password |-> Undefined,
     title |-> Undefined, description |-> Undefined, status |-> Undefined,
     search |-> Undefined, user |-> NoUser]

IdleReq ==
    [pc |-> "idle", route |-> "none", hdr |-> <<>>, id |-> 0, body |-> EmptyBody,
     user |-> NoUser, doc |-> NoDoc, orig |-> NoDoc, res |-> NoResponse]

PublicRoutes == {"register", "login"}
ProfileRoutes == {"getUserProfile", "updateUserProfile"}
TaskRoutes == {"getTasks", "getTaskById", "createTask", "updateTask", "deleteTask"}
\* the routes mounted behind protect
ProtectedRoutes == ProfileRoutes \cup TaskRoutes

\* the handler's reply: the request is over, its loaded documents are dropped
Reply(s, res) ==
    req' = [req EXCEPT ![s].pc = "done", ![s].res = res,
                       ![s].doc = NoDoc, ![s].orig = NoDoc]

(***************************************************************************)
(* User collection (user.model)                                            *)
(***************************************************************************)
UserIds == 1..Len(users)

\* (mutant) a lookup that ignores the id and takes the first document
UserFindById_First(id) == IF Len(users) >= 1 THEN 1 ELSE NoUser

\* User.findById(id): the _id of the document, or NoUser for null
UserFindById(id) == IF id \in UserIds THEN id ELSE NoUser

\* (mutant) a lookup that finds nothing
UserFindOneByEmail_Blind(email) == NoUser

\* User.findOne({email}): the _id of a matching document, or NoUser for null
UserFindOneByEmail(email) ==
    LET hits == {i \in UserIds : users[i].email = email}
    IN  IF hits = {} THEN NoUser ELSE CHOOSE i \in hits : \A j \in hits : i <= j

\* (mutant) no unique index
DuplicateEmail_NoIndex(id, email) == FALSE

\* the unique index on email: would writing `email` into document `id`
\* (NoUser for an insert) collide with another document?
DuplicateEmail(id, email) ==
    \E i \in UserIds : i /= id /\ users[i].email = email

\* (mutant) a hook that stores the password as it came
preSave_NoHash(doc, passwordModified, salt) == doc

\* (mutant) a hook that hashes on every save
preSave_AlwaysHash(doc, passwordModified, salt) ==
    [doc EXCEPT !.password = bcryptHash(doc.password, salt)]

\* UserSchema.pre("save"): the password is hashed when the path is
\* modified (a new document, or a value other than the loaded one)
preSave(doc, passwordModified, salt) ==
    IF ~passwordModified THEN doc
    ELSE [doc EXCEPT !.password = bcryptHash(doc.password, salt)]

\* matchPassword(enteredPassword)
matchPassword(doc, enteredPassword) == bcryptCompare(enteredPassword, doc.password)

(***************************************************************************)
(* Auth middleware (auth.middleware)                                       *)
(***************************************************************************)
NoTokenError == sendError(401, "Not authorized, no token", Undefined)
TokenFailedError == sendError(401, "Not authorized, token failed", Undefined)

\* authorization.startsWith("Bearer"), the header given as its
\* space-separated parts (<<>> when the header is absent)
HasBearer(hdr) == hdr /= <<>> /\ hdr[1] = "Bearer"

\* (mutant) a middleware that accepts only the newest token of a user
protectOutcome_LatestOnly(hdr, key, t) ==
    IF HasBearer(hdr)
    THEN LET decoded == jwtVerify(hdr, key, t) IN
         IF decoded.ok /\ ~ \E newer \in issued :
                               newer.id = decoded.id /\ newer.iat > hdr[2].iat
         THEN [next |-> TRUE, user |-> UserFindById(decoded.id), res |-> NoResponse]
         ELSE [next |-> FALSE, user |-> NoUser, res |-> TokenFailedError]
    ELSE [next |-> FALSE, user |-> NoUser, res |-> NoTokenError]

\* What protect does with a header at time t: either it calls next() with
\* the user it attached (NoUser when findById found none), or it replies.
protectOutcome(hdr, key, t) ==
    IF HasBearer(hdr)
    THEN LET decoded == jwtVerify(hdr, key, t) IN
         IF decoded.ok
         THEN [next |-> TRUE, user |-> UserFindById(decoded.id), res |-> NoResponse]
         ELSE [next |-> FALSE, user |-> NoUser, res |-> TokenFailedError]
    ELSE [next |-> FALSE, user |-> NoUser, res |-> NoTokenError]

protect(s) ==
    /\ req[s].pc = "protect"
    /\ LET o == protectOutcome(req[s].hdr, secret, now) IN
       IF o.next
       THEN req' = [req EXCEPT ![s].user = o.user, ![s].pc = req[s].route]
       ELSE Reply(s, o.res)
    /\ UNCHANGED <<users, tasks, nextTaskId, now, secret, issued, registered>>

(***************************************************************************)
(* Auth controller (auth.controller)                                       *)
(***************************************************************************)
ValidationFailed(errors) == sendError(400, "Validation failed", errors)
ServerError(message) == sendError(500, "Server error", <<message>>)

\* the itemized errors registerUser collects
registerErrors(body) ==
    (IF ~Truthy(body.name) \/ ~validateName(body.name)
     THEN <<"Name must be at least 2 characters long">> ELSE <<>>)
    \o (IF ~Truthy(body.email) \/ ~validateEmail(body.email)
        THEN <<"Please provide a valid email address">> ELSE <<>>)
    \o (IF ~Truthy(body.password)
        THEN <<"Password is required">>
        ELSE validatePassword(body.password).errors)

\* registerUser up to and including User.findOne({email})
registerUser(s) ==
    /\ req[s].pc = "register"
    /\ LET body == req[s].body
           errors == registerErrors(body) IN
       IF errors /= <<>>
       THEN Reply(s, ValidationFailed(errors))
       ELSE IF UserFindOneByEmail(body.email) /= NoUser
       THEN Reply(s, sendError(400, "Email is already registered", Undefined))
       ELSE req' = [req EXCEPT ![s].pc = "register_create"]
    /\ UNCHANGED <<users, tasks, nextTaskId, now, secret, issued, registered>>

\* registerUser from User.create(...) on: the pre-save hook hashes the
\* password, the insert is refused by the unique index on a duplicate email
registerCreate(s) ==
    /\ req[s].pc = "register_create"
    /\ LET body == req[s].body IN
       \E salt \in Salts :
         LET user == preSave([name |-> body.name, email |-> body.email,
                              password |-> body.password], TRUE, salt)
             id == Len(users) + 1
             token == generateToken(id, secret, now) IN
         IF DuplicateEmail(NoUser, body.email)
         THEN /\ Reply(s, ServerError("E11000 duplicate key error"))
              /\ UNCHANGED <<users, issued, registered>>
         ELSE /\ users' = Append(users, user)
              /\ issued' = issued \cup {token}
              /\ registered' = registered \cup {user.email}
              /\ Reply(s, sendSuccess(201,
                       [id |-> id, name |-> user.name, email |-> user.email,
                        token |-> token],
                       "User registered successfully"))
    /\ UNCHANGED <<tasks, nextTaskId, now, secret>>

InvalidCredentials == sendError(401, "Invalid email or password", Undefined)

\* (mutant) a separate reply for an email that no user holds
loginUser_TellsMissing(s) ==
    /\ req[s].pc = "login"
    /\ LET body == req[s].body IN
       IF ~Truthy(body.email) \/ ~Truthy(body.password)
       THEN /\ Reply(s, sendError(400, "Email and password are required", Undefined))
            /\ UNCHANGED issued
       ELSE LET id == UserFindOneByEmail(body.email) IN
            IF id = NoUser
            THEN /\ Reply(s, sendError(404, "User not found", Undefined))
                 /\ UNCHANGED issued
            ELSE IF matchPassword(users[id], body.password)
            THEN LET token == generateToken(id, secret, now) IN
                 /\ issued' = issued \cup {token}
                 /\ Reply(s, sendSuccess(200,
                          [id |-> id, name |-> users[id].name,
                           email |-> users[id].email, token |-> token],
                          "Login successful"))
            ELSE /\ Reply(s, InvalidCredentials)
                 /\ UNCHANGED issued
    /\ UNCHANGED <<users, tasks, nextTaskId, now, secret, registered>>

\* loginUser
loginUser(s) ==
    /\ req[s].pc = "login"
    /\ LET body == req[s].body IN
       IF ~Truthy(body.email) \/ ~Truthy(body.password)
       THEN /\ Reply(s, sendError(400, "Email and password are required", Undefined))
            /\ UNCHANGED issued
       ELSE LET id == UserFindOneByEmail(body.email) IN
            IF id /= NoUser /\ matchPassword(users[id], body.password)
            THEN LET token == generateToken(id, secret, now) IN
                 /\ issued' = issued \cup {token}
                 /\ Reply(s, sendSuccess(200,
                          [id |-> id, name |-> users[id].name,
                           email |-> users[id].email, token |-> token],
                          "Login successful"))
            ELSE /\ Reply(s, InvalidCredentials)
                 /\ UNCHANGED issued
    /\ UNCHANGED <<users, tasks, nextTaskId, now, secret, registered>>

\* getUserProfile
getUserProfile(s) ==
    /\ req[s].pc = "getUserProfile"
    /\ LET id == UserFindById(req[s].user) IN
       IF id /= NoUser
       THEN Reply(s, sendSuccess(200,
                [id |-> id, name |-> users[id].name, email |-> users[id].email],
                "Profile retrieved successfully"))
       ELSE Reply(s, sendError(404, "User not found", Undefined))
    /\ UNCHANGED <<users, tasks, nextTaskId, now, secret, issued, registered>>

\* (mutant) a validation that looks at the name only
profileErrors_NameOnly(body) ==
    IF Truthy(body.name) /\ ~validateName(body.name)
    THEN <<"Name must be at least 2 characters long">> ELSE <<>>

\* the itemized errors updateUserProfile collects
profileErrors(body) ==
    (IF Truthy(body.name) /\ ~validateName(body.name)
     THEN <<"Name must be at least 2 characters long">> ELSE <<>>)
    \o (IF Truthy(body.email) /\ ~validateEmail(body.email)
        THEN <<"Please provide a valid email address">> ELSE <<>>)
    \o (IF Truthy(body.password)
        THEN validatePassword(body.password).errors ELSE <<>>)

\* the assignments updateUserProfile makes to the loaded document
profileAssign(user, body) ==
    [user EXCEPT !.name = OrElse(body.name, user.name),
                 !.email = OrElse(body.email, user.email),
                 !.password = IF Truthy(body.password) THEN body.password
                              ELSE user.password]

\* updateUserProfile up to the call of user.save()
updateUserProfile(s) ==
    /\ req[s].pc = "updateUserProfile"
    /\ LET body == req[s].body
           id == UserFindById(req[s].user)
           errors == profileErrors(body) IN
       IF id = NoUser
       THEN Reply(s, sendError(404, "User not found", Undefined))
       ELSE IF errors /= <<>>
       THEN Reply(s, ValidationFailed(errors))
       ELSE LET loaded == [_id |-> id, name |-> users[id].name,
                           email |-> users[id].email,
                           password |-> users[id].password] IN
            req' = [req EXCEPT ![s].pc = "profile_save",
                               ![s].orig = loaded,
                               ![s].doc = profileAssign(loaded, body)]
    /\ UNCHANGED <<users, tasks, nextTaskId, now, secret, issued, registered>>

\* user.save(): the pre-save hook, then an update that sets the modified
\* paths only; the unique index refuses a duplicate email
profileSave(s) ==
    /\ req[s].pc = "profile_save"
    /\ LET orig == req[s].orig
           id == orig._id IN
       \E salt \in Salts :
         LET doc == preSave(req[s].doc, req[s].doc.password /= orig.password, salt)
             stored == users[id]
             written == [name |-> IF doc.name /= orig.name THEN doc.name
                                  ELSE stored.name,
                         email |-> IF doc.email /= orig.email THEN doc.email
                                   ELSE stored.email,
                         password |-> IF doc.password /= orig.password
                                      THEN doc.password ELSE stored.password]
             token == generateToken(id, secret, now) IN
         IF doc.email /= orig.email /\ DuplicateEmail(id, doc.email)
         THEN /\ Reply(s, ServerError("E11000 duplicate key error"))
              /\ UNCHANGED <<users, issued>>
         ELSE /\ users' = [users EXCEPT ![id] = written]
              /\ issued' = issued \cup {token}
              /\ Reply(s, sendSuccess(200,
                       [id |-> id, name |-> doc.name, email |-> doc.email,
                        token |-> token],
                       "Profile updated successfully"))
    /\ UNCHANGED <<tasks, nextTaskId, now, secret, registered>>

(***************************************************************************)
(* Task collection (task.model)                                            *)
(***************************************************************************)
\* a path id that is no ObjectId: findById throws a CastError on it
BadId == 0

StatusEnum == {<<"pending">>, <<"in_progress">>, <<"completed">>}

NoTask == [_id |-> 0]

\* Task.findById(id): the document, or NoTask for null
TaskFindById(id) ==
    IF \E t \in tasks : t._id = id
    THEN CHOOSE t \in tasks : t._id = id
    ELSE NoTask

\* the letters the model's strings use, lower-cased ($options: "i")
Lower(c) ==
    CASE c = "T" -> "t"
      [] c = "U" -> "u"
      [] c = "D" -> "d"
      [] OTHER -> c

\* does the pattern match at position i of the text?  "." matches any
\* character, every other character of the model's alphabet itself
RegexAt(text, pattern, i) ==
    /\ i + Len(pattern) - 1 <= Len(text)
    /\ \A k \in 1..Len(pattern) :
          pattern[k] = "." \/ Lower(pattern[k]) = Lower(text[i + k - 1])

\* {field: {$regex: pattern, $options: "i"}}; a missing field never matches
RegexMatch(text, pattern) ==
    /\ text /= Undefined
    /\ \E i \in 1..(Len(text) + 1) : RegexAt(text, pattern, i)

\* (mutant) the filter without the owner
TaskMatches_AnyOwner(t, user, search, status) ==
    /\ Truthy(search) =>
          RegexMatch(t.title, search) \/ RegexMatch(t.description, search)
    /\ Truthy(status) => t.status = status

\* does the document pass the filter getTasks builds?  A filter key whose
\* value is undefined is dropped from the query.
TaskMatches(t, user, search, status) ==
    /\ user /= NoUser => t.user = user
    /\ Truthy(search) =>
          RegexMatch(t.title, search) \/ RegexMatch(t.description, search)
    /\ Truthy(status) => t.status = status

\* (mutant) .sort({createdAt: 1})
RECURSIVE SortNewestFirst_OldestFirst(_)
SortNewestFirst_OldestFirst(docs) ==
    IF docs = {} THEN <<>>
    ELSE LET oldest == CHOOSE t \in docs : \A u \in docs : t.createdAt <= u.createdAt
         IN  <<oldest>> \o SortNewestFirst_OldestFirst(docs \ {oldest})

\* .sort({createdAt: -1})
RECURSIVE SortNewestFirst(_)
SortNewestFirst(docs) ==
    IF docs = {} THEN <<>>
    ELSE LET newest == CHOOSE t \in docs : \A u \in docs : u.createdAt <= t.createdAt
         IN  <<newest>> \o SortNewestFirst(docs \ {newest})

(***************************************************************************)
(* Task controller (task.controller)                                       *)
(***************************************************************************)
NotFoundError == sendError(404, "Task not found or not authorized", Undefined)
CastError == ServerError("Cast to ObjectId failed")

\* (mutant) the check without the comparison of owners
OwnedBy_ExistsOnly(task, user) == task /= NoTask

\* task && task.user.toString() === req.user?._id.toString()
OwnedBy(task, user) == task /= NoTask /\ user /= NoUser /\ task.user = user

\* getTasks
getTasks(s) ==
    /\ req[s].pc = "getTasks"
    /\ LET q == req[s].body
           found == {t \in tasks : TaskMatches(t, req[s].user, q.search, q.status)} IN
       Reply(s, sendSuccess(200, SortNewestFirst(found), "Tasks retrieved successfully"))
    /\ UNCHANGED <<users, tasks, nextTaskId, now, secret, issued, registered>>

\* (mutant) a separate reply for a task of another user
getTaskById_TellsForeign(s) ==
    /\ req[s].pc = "getTaskById"
    /\ LET task == TaskFindById(req[s].id) IN
       IF req[s].id = BadId THEN Reply(s, CastError)
       ELSE IF OwnedBy(task, req[s].user)
       THEN Reply(s, sendSuccess(200, task, "Task retrieved successfully"))
       ELSE IF task /= NoTask
       THEN Reply(s, sendError(403, "Not authorized", Undefined))
       ELSE Reply(s, NotFoundError)
    /\ UNCHANGED <<users, tasks, nextTaskId, now, secret, issued, registered>>

\* getTaskById
getTaskById(s) ==
    /\ req[s].pc = "getTaskById"
    /\ LET task == TaskFindById(req[s].id) IN
       IF req[s].id = BadId THEN Reply(s, CastError)
       ELSE IF OwnedBy(task, req[s].user)
       THEN Reply(s, sendSuccess(200, task, "Task retrieved successfully"))
       ELSE Reply(s, NotFoundError)
    /\ UNCHANGED <<users, tasks, nextTaskId, now, secret, issued, registered>>

StatusError == <<"Status must be one of: pending, in_progress, completed">>

\* (mutant) a validation that does not look at the status
createErrors_TitleOnly(body) ==
    IF ~Truthy(body.title) \/ ~validateTaskTitle(body.title)
    THEN <<"Title is required and must not be empty">> ELSE <<>>

\* the itemized errors createTask collects
createErrors(body) ==
    (IF ~Truthy(body.title) \/ ~validateTaskTitle(body.title)
     THEN <<"Title is required and must not be empty">> ELSE <<>>)
    \o (IF Truthy(body.status) /\ body.status \notin StatusEnum
        THEN StatusError ELSE <<>>)

\* (mutant) a document whose owner the body may name
newTask_BodyOwner(id, user, body) ==
    [_id |-> id, user |-> IF body.user /= NoUser THEN body.user ELSE user,
     title |-> body.title, description |-> body.description,
     status |-> OrElse(body.status, <<"pending">>), createdAt |-> id]

\* the document createTask builds
newTask(id, user, body) ==
    [_id |-> id, user |-> user, title |-> body.title,
     description |-> body.description,
     status |-> OrElse(body.status, <<"pending">>), createdAt |-> id]

\* createTask; the schema requires `user`, so saving without one throws
createTask(s) ==
    /\ req[s].pc = "createTask"
    /\ LET body == req[s].body
           errors == createErrors(body)
           task == newTask(nextTaskId, req[s].user, body) IN
       IF errors /= <<>>
       THEN /\ Reply(s, ValidationFailed(errors))
            /\ UNCHANGED <<tasks, nextTaskId>>
       ELSE IF req[s].user = NoUser
       THEN /\ Reply(s, ServerError("Task validation failed: user is required"))
            /\ UNCHANGED <<tasks, nextTaskId>>
       ELSE /\ tasks' = tasks \cup {task}
            /\ nextTaskId' = nextTaskId + 1
            /\ Reply(s, sendSuccess(201, task, "Task created successfully"))
    /\ UNCHANGED <<users, now, secret, issued, registered>>

\* the itemized errors updateTask collects
updateErrors(body) ==
    (IF Truthy(body.title) /\ ~validateTaskTitle(body.title)
     THEN <<"Title must not be empty">> ELSE <<>>)
    \o (IF Truthy(body.status) /\ body.status \notin StatusEnum
        THEN StatusError ELSE <<>>)

\* (mutant) assignments that take every field from the body
taskAssign_Overwrite(task, body) ==
    [task EXCEPT !.title = body.title,
                 !.description = body.description,
                 !.status = body.status]

\* (mutant) assignments that fall back on undefined only (a ?? b)
taskAssign_Nullish(task, body) ==
    [task EXCEPT !.title = IF body.title /= Undefined
                           THEN body.title ELSE task.title,
                 !.description = IF body.description /= Undefined
                                 THEN body.description ELSE task.description,
                 !.status = IF body.status /= Undefined
                            THEN body.status ELSE task.status]

\* (mutant) assignments that also take the owner from the body
taskAssign_TakesOwner(task, body) ==
    [task EXCEPT !.user = IF body.user /= NoUser THEN body.user ELSE task.user,
                 !.title = OrElse(body.title, task.title),
                 !.description = OrElse(body.description, task.description),
                 !.status = OrElse(body.status, task.status)]

\* the assignments updateTask makes to the loaded document
taskAssign(task, body) ==
    [task EXCEPT !.title = OrElse(body.title, task.title),
                 !.description = OrElse(body.description, task.description),
                 !.status = OrElse(body.status, task.status)]

\* updateTask up to the call of task.save()
updateTask(s) ==
    /\ req[s].pc = "updateTask"
    /\ LET body == req[s].body
           errors == updateErrors(body)
           task == TaskFindById(req[s].id) IN
       IF errors /= <<>> THEN Reply(s, ValidationFailed(errors))
       ELSE IF req[s].id = BadId THEN Reply(s, CastError)
       ELSE IF OwnedBy(task, req[s].user)
       THEN req' = [req EXCEPT ![s].pc = "task_save",
                               ![s].orig = task,
                               ![s].doc = taskAssign(task, body)]
       ELSE Reply(s, NotFoundError)
    /\ UNCHANGED <<users, tasks, nextTaskId, now, secret, issued, registered>>

\* (mutant) a save that inserts the document when it is no longer stored
taskSave_Upsert(s) ==
    /\ req[s].pc = "task_save"
    /\ LET doc == req[s].doc
           orig == req[s].orig
           stored == TaskFindById(doc._id)
           written == [stored EXCEPT
                         !.title = IF doc.title /= orig.title
                                   THEN doc.title ELSE stored.title,
                         !.description = IF doc.description /= orig.description
                                         THEN doc.description ELSE stored.description,
                         !.status = IF doc.status /= orig.status
                                    THEN doc.status ELSE stored.status] IN
       IF stored = NoTask
       THEN /\ tasks' = tasks \cup {doc}
            /\ Reply(s, sendSuccess(200, doc, "Task updated successfully"))
       ELSE /\ tasks' = (tasks \ {stored}) \cup {written}
            /\ Reply(s, sendSuccess(200, doc, "Task updated successfully"))
    /\ UNCHANGED <<users, nextTaskId, now, secret, issued, registered>>

\* (mutant) a save that writes the whole document as it was loaded and
\* assigned
taskSave_WholeDocument(s) ==
    /\ req[s].pc = "task_save"
    /\ LET doc == req[s].doc
           stored == TaskFindById(doc._id) IN
       IF stored = NoTask
       THEN /\ Reply(s, ServerError("DocumentNotFoundError"))
            /\ UNCHANGED tasks
       ELSE /\ tasks' = (tasks \ {stored}) \cup {doc}
            /\ Reply(s, sendSuccess(200, doc, "Task updated successfully"))
    /\ UNCHANGED <<users, nextTaskId, now, secret, issued, registered>>

\* task.save(): an update that sets the modified paths only; it throws
\* when the document is no longer in the collection
taskSave(s) ==
    /\ req[s].pc = "task_save"
    /\ LET doc == req[s].doc
           orig == req[s].orig
           stored == TaskFindById(doc._id)
           written == [stored EXCEPT
                         !.user = IF doc.user /= orig.user
                                  THEN doc.user ELSE stored.user,
                         !.title = IF doc.title /= orig.title
                                   THEN doc.title ELSE stored.title,
                         !.description = IF doc.description /= orig.description
                                         THEN doc.description ELSE stored.description,
                         !.status = IF doc.status /= orig.status
                                    THEN doc.status ELSE stored.status] IN
       IF stored = NoTask
       THEN /\ Reply(s, ServerError("DocumentNotFoundError"))
            /\ UNCHANGED tasks
       ELSE /\ tasks' = (tasks \ {stored}) \cup {written}
            /\ Reply(s, sendSuccess(200, doc, "Task updated successfully"))
    /\ UNCHANGED <<users, nextTaskId, now, secret, issued, registered>>

\* deleteTask up to the call of task.deleteOne()
deleteTask(s) ==
    /\ req[s].pc = "deleteTask"
    /\ LET task == TaskFindById(req[s].id) IN
       IF req[s].id = BadId THEN Reply(s, CastError)
       ELSE IF OwnedBy(task, req[s].user)
       THEN req' = [req EXCEPT ![s].pc = "task_delete", ![s].doc = task]
       ELSE Reply(s, NotFoundError)
    /\ UNCHANGED <<users, tasks, nextTaskId, now, secret, issued, registered>>

\* (mutant) a delete that answers without removing the document
taskDelete_Keeps(s) ==
    /\ req[s].pc = "task_delete"
    /\ Reply(s, sendSuccess(200, Null, "Task deleted successfully"))
    /\ UNCHANGED <<users, tasks, nextTaskId, now, secret, issued, registered>>

\* task.deleteOne()
taskDelete(s) ==
    /\ req[s].pc = "task_delete"
    /\ tasks' = {t \in tasks : t._id /= req[s].doc._id}
    /\ Reply(s, sendSuccess(200, Null, "Task deleted successfully"))
    /\ UNCHANGED <<users, nextTaskId, now, secret, issued, registered>>

(***************************************************************************)
(* Router (server, auth.routes, task.routes) and the clock                 *)
(***************************************************************************)
\* (mutant) deleteTask mounted without protect
firstHandler_DeleteOpen(route) ==
    IF route \in ProtectedRoutes \ {"deleteTask"} THEN "protect" ELSE route

\* where a request for a route starts: the routes mounted behind protect
\* run the middleware first
firstHandler(route) == IF route \in ProtectedRoutes THEN "protect" ELSE route

\* a request arrives on a free slot
Receive(s, route, hdr, id, body) ==
    /\ req[s].pc \in {"idle", "done"}
    /\ req' = [req EXCEPT ![s] =
                 [IdleReq EXCEPT !.pc = firstHandler(route), !.route = route,
                                 !.hdr = hdr, !.id = id, !.body = body]]
    /\ UNCHANGED <<users, tasks, nextTaskId, now, secret, issued, registered>>

Tick ==
    /\ now + DaysPerTick <= MaxClock
    /\ now' = now + DaysPerTick
    /\ UNCHANGED <<users, tasks, nextTaskId, secret, issued, registered, req>>

(***************************************************************************)
(* Requests the clients send                                               *)
(***************************************************************************)
Jo == <<"J", "o">>
Al == <<"A", "l">>
PaddedJ == <<" ", "J", " ">>
EmailA == <<"a", "@", "x", ".", "y">>
EmailB == <<"b", "@", "x", ".", "y">>
NoDotEmail == <<"a", "@", "x">>
Secret6 == <<"s", "e", "c", "r", "e", "t">>
Hunter2 == <<"h", "u", "n", "t", "e", "r", "2">>
Short5 == <<"s", "h", "o", "r", "t">>
TitleT == <<"T">>
TitleU == <<"U">>
Blank == <<" ">>
DescD == <<"d">>
Completed == <<"completed">>
Bogus == <<"bogus">>

Bearer(token) == <<"Bearer", token>>

\* the Authorization headers of clients that hold a token some response
\* gave them, and of a client that sends none
ClientHeaders == {<<>>} \cup {Bearer(t) : t \in issued}

\* valid registrations of two accounts
SignUps ==
    {[EmptyBody EXCEPT !.name = Jo, !.email = e, !.password = Secret6] :
        e \in {EmailA, EmailB}}

CreateBodies ==
    { [EmptyBody EXCEPT !.title = TitleT],
      [EmptyBody EXCEPT !.title = TitleT, !.description = DescD,
                        !.status = Completed],
      [EmptyBody EXCEPT !.title = TitleT, !.user = 1],
      [EmptyBody EXCEPT !.title = Blank],
      [EmptyBody EXCEPT !.status = Bogus] }

UpdateBodies ==
    { EmptyBody,
      [EmptyBody EXCEPT !.status = Completed],
      [EmptyBody EXCEPT !.title = TitleU, !.user = 1],
      [EmptyBody EXCEPT !.title = Blank],
      [EmptyBody EXCEPT !.status = Bogus] }

\* path ids: every id the collection can hand out, and a malformed one
PathIds == {BadId} \cup 1..MaxTasks

(***************************************************************************)
(* Spec: one request at a time, the task API used by registered clients    *)
(***************************************************************************)
ReceiveTaskApi(s) ==
    \/ \E body \in SignUps : Receive(s, "register", <<>>, 0, body)
    \/ \E hdr \in ClientHeaders : Receive(s, "getTasks", hdr, 0, EmptyBody)
    \/ \E hdr \in ClientHeaders, id \in PathIds :
          Receive(s, "getTaskById", hdr, id, EmptyBody)
    \/ \E hdr \in ClientHeaders, body \in CreateBodies :
          /\ nextTaskId <= MaxTasks
          /\ Receive(s, "createTask", hdr, 0, body)
    \/ \E hdr \in ClientHeaders, id \in PathIds, body \in UpdateBodies :
          Receive(s, "updateTask", hdr, id, body)
    \/ \E hdr \in ClientHeaders, id \in PathIds :
          Receive(s, "deleteTask", hdr, id, EmptyBody)

InitSlots(n) ==
    /\ users = <<>>
    /\ tasks = {}
    /\ nextTaskId = 1
    /\ now = 0
    /\ secret \in {ConfiguredSecret, Unset}
    /\ issued = {}
    /\ registered = {}
    /\ req = [s \in 1..n |-> IdleReq]

Init == InitSlots(1)

Next ==
    \/ ReceiveTaskApi(1)
    \/ protect(1)
    \/ registerUser(1)
    \/ registerCreate(1)
    \/ getTasks(1)
    \/ getTaskById(1)
    \/ createTask(1)
    \/ updateTask(1)
    \/ taskSave(1)
    \/ deleteTask(1)
    \/ taskDelete(1)

Spec == Init /\ [][Next]_vars

(***************************************************************************)
(* SpecAuth: one request at a time, every route, every kind of             *)
(* Authorization header, tokens that age                                   *)
(***************************************************************************)
AttackerSecret == "attacker_secret"

\* no header; another scheme; the scheme without a token; no JSON web
\* token; a token signed with another key; a token a response handed out
AnyHeaders ==
    {<<>>, <<"Basic", JunkToken>>, <<"Bearer">>, Bearer(JunkToken)}
    \cup {Bearer(jwtSign(u, AttackerSecret, now)) : u \in UserIds}
    \cup {Bearer(t) : t \in issued}

Logins ==
    {[EmptyBody EXCEPT !.email = e, !.password = Secret6] : e \in {EmailA, EmailB}}

\* a body that names another user as the one to act on
Rename == [EmptyBody EXCEPT !.name = Al, !.user = 1]
CreateForOther == [EmptyBody EXCEPT !.title = TitleT, !.user = 1]
CompleteForOther == [EmptyBody EXCEPT !.status = Completed, !.user = 1]

ReceiveAny(s) ==
    \/ \E body \in SignUps : Receive(s, "register", <<>>, 0, body)
    \/ \E body \in Logins : Receive(s, "login", <<>>, 0, body)
    \/ \E hdr \in AnyHeaders, route \in {"getUserProfile", "getTasks"} :
          Receive(s, route, hdr, 0, EmptyBody)
    \/ \E hdr \in AnyHeaders : Receive(s, "updateUserProfile", hdr, 0, Rename)
    \/ \E hdr \in AnyHeaders :
          /\ nextTaskId <= MaxTasksAuth
          /\ Receive(s, "createTask", hdr, 0, CreateForOther)
    \/ \E hdr \in AnyHeaders, id \in 1..MaxTasksAuth :
          Receive(s, "updateTask", hdr, id, CompleteForOther)
    \/ \E hdr \in AnyHeaders, id \in 1..MaxTasksAuth,
          route \in {"getTaskById", "deleteTask"} :
          Receive(s, route, hdr, id, EmptyBody)

NextAuth ==
    \/ ReceiveAny(1)
    \/ Tick
    \/ protect(1)
    \/ registerUser(1)
    \/ registerCreate(1)
    \/ loginUser(1)
    \/ getUserProfile(1)
    \/ updateUserProfile(1)
    \/ profileSave(1)
    \/ getTasks(1)
    \/ getTaskById(1)
    \/ createTask(1)
    \/ updateTask(1)
    \/ taskSave(1)
    \/ deleteTask(1)
    \/ taskDelete(1)

SpecAuth == Init /\ [][NextAuth]_vars

(***************************************************************************)
(* SpecUsers: one request at a time, the account API with valid and        *)
(* invalid bodies                                                          *)
(***************************************************************************)
RegisterBodies ==
    {[EmptyBody EXCEPT !.name = n, !.email = e, !.password = p] :
        n \in {Jo, PaddedJ, Undefined},
        e \in {EmailA, EmailB, NoDotEmail},
        p \in {Secret6, Short5, Undefined}}

LoginBodies ==
    {[EmptyBody EXCEPT !.email = e, !.password = p] :
        e \in {EmailA, EmailB, Undefined},
        p \in {Secret6, Hunter2, Undefined}}

ProfileBodies ==
    {[EmptyBody EXCEPT !.name = n, !.email = e, !.password = p] :
        n \in {Undefined, Al, PaddedJ},
        e \in {Undefined, EmailA, EmailB, NoDotEmail},
        p \in {Undefined, Hunter2, Short5}}
    \cup { [EmptyBody EXCEPT !.name = <<>>],
           [EmptyBody EXCEPT !.email = <<>>, !.password = Hunter2],
           [EmptyBody EXCEPT !.email = EmailB, !.password = <<>>] }

\* every password a client sends.  A stored hash is in no response, so no
\* client can send one.
PlainPasswords == {Secret6, Hunter2, Short5}

ReceiveAccountApi(s) ==
    \/ \E body \in RegisterBodies : Receive(s, "register", <<>>, 0, body)
    \/ \E body \in LoginBodies : Receive(s, "login", <<>>, 0, body)
    \/ \E hdr \in ClientHeaders : Receive(s, "getUserProfile", hdr, 0, EmptyBody)
    \/ \E hdr \in ClientHeaders, body \in ProfileBodies :
          Receive(s, "updateUserProfile", hdr, 0, body)

NextUsers ==
    \/ ReceiveAccountApi(1)
    \/ protect(1)
    \/ registerUser(1)
    \/ registerCreate(1)
    \/ loginUser(1)
    \/ getUserProfile(1)
    \/ updateUserProfile(1)
    \/ profileSave(1)

SpecUsers == Init /\ [][NextUsers]_vars

(***************************************************************************)
(* SpecRace: registrations and profile updates that overlap                *)
(***************************************************************************)
EmailChanges ==
    {[EmptyBody EXCEPT !.email = e] : e \in {EmailA, EmailB}}

ReceiveOverlapping(s) ==
    \/ \E body \in SignUps : Receive(s, "register", <<>>, 0, body)
    \/ \E t \in issued, body \in EmailChanges :
          Receive(s, "updateUserProfile", Bearer(t), 0, body)

NextRace ==
    \E s \in 1..NumSlots :
        \/ ReceiveOverlapping(s)
        \/ protect(s)
        \/ registerUser(s)
        \/ registerCreate(s)
        \/ updateUserProfile(s)
        \/ profileSave(s)

SpecRace == InitSlots(NumSlots) /\ [][NextRace]_vars

(***************************************************************************)
(* SpecQuery: one request at a time, tasks created from valid and invalid  *)
(* bodies and listed with search and status filters                        *)
(***************************************************************************)
TitleTd == <<"T", "d">>
Pending == <<"pending">>
SearchT == <<"t">>
SearchD == <<"D">>
SearchDot == <<".">>

QueryCreateBodies ==
    { [EmptyBody EXCEPT !.title = TitleT],
      [EmptyBody EXCEPT !.title = TitleT, !.status = <<>>],
      [EmptyBody EXCEPT !.title = TitleU, !.description = DescD,
                        !.status = Completed],
      [EmptyBody EXCEPT !.title = TitleTd, !.user = 1],
      [EmptyBody EXCEPT !.description = DescD],
      [EmptyBody EXCEPT !.title = <<>>],
      [EmptyBody EXCEPT !.title = Blank, !.status = Completed],
      [EmptyBody EXCEPT !.title = TitleT, !.status = Bogus],
      [EmptyBody EXCEPT !.status = Bogus] }

\* req.query of GET /api/tasks
Queries ==
    {[EmptyBody EXCEPT !.search = q, !.status = st] :
        q \in {Undefined, <<>>, SearchT, SearchD, SearchDot},
        st \in {Undefined, Completed, Pending}}

ReceiveQueryApi(s) ==
    \/ \E body \in SignUps : Receive(s, "register", <<>>, 0, body)
    \/ \E hdr \in ClientHeaders, q \in Queries : Receive(s, "getTasks", hdr, 0, q)
    \/ \E hdr \in ClientHeaders, body \in QueryCreateBodies :
          /\ nextTaskId <= MaxTasks
          /\ Receive(s, "createTask", hdr, 0, body)

NextQuery ==
    \/ ReceiveQueryApi(1)
    \/ protect(1)
    \/ registerUser(1)
    \/ registerCreate(1)
    \/ getTasks(1)
    \/ createTask(1)

SpecQuery == Init /\ [][NextQuery]_vars

(***************************************************************************)
(* SpecFault: one request at a time, every route, persistence calls that   *)
(* may fail                                                                *)
(***************************************************************************)
\* protect when User.findById rejects: the rejection is thrown inside the
\* try block that surrounds jwt.verify, and the catch answers for both
protectFails(s) ==
    /\ req[s].pc = "protect"
    /\ HasBearer(req[s].hdr)
    /\ jwtVerify(req[s].hdr, secret, now).ok
    /\ Reply(s, TokenFailedError)
    /\ UNCHANGED <<users, tasks, nextTaskId, now, secret, issued, registered>>

\* is the controller about to make a persistence call?  The validation
\* that precedes the call has passed.
AtPersistenceCall(r) ==
    \/ r.pc \in {"register_create", "getUserProfile", "updateUserProfile",
                 "profile_save", "getTasks", "getTaskById", "deleteTask",
                 "task_save", "task_delete"}
    \/ r.pc = "register" /\ registerErrors(r.body) = <<>>
    \/ r.pc = "login" /\ Truthy(r.body.email) /\ Truthy(r.body.password)
    \/ r.pc = "createTask" /\ createErrors(r.body) = <<>>
    \/ r.pc = "updateTask" /\ updateErrors(r.body) = <<>>

\* a controller when the persistence call it awaits rejects: its catch
\* block answers 500 with the error's message; nothing was written
controllerFails(s) ==
    /\ AtPersistenceCall(req[s])
    /\ Reply(s, ServerError("persistence failure"))
    /\ UNCHANGED <<users, tasks, nextTaskId, now, secret, issued, registered>>

ReceiveFault(s) ==
    \/ \E body \in SignUps : Receive(s, "register", <<>>, 0, body)
    \/ \E body \in Logins : Receive(s, "login", <<>>, 0, body)
    \/ \E hdr \in ClientHeaders, route \in {"getUserProfile", "getTasks"} :
          Receive(s, route, hdr, 0, EmptyBody)
    \/ \E hdr \in ClientHeaders : Receive(s, "updateUserProfile", hdr, 0, Rename)
    \/ \E hdr \in ClientHeaders :
          /\ nextTaskId <= MaxTasksAuth
          /\ Receive(s, "createTask", hdr, 0, CreateForOther)
    \/ \E hdr \in ClientHeaders, id \in 1..MaxTasksAuth :
          Receive(s, "updateTask", hdr, id, CompleteForOther)
    \/ \E hdr \in ClientHeaders, id \in 1..MaxTasksAuth,
          route \in {"getTaskById", "deleteTask"} :
          Receive(s, route, hdr, id, EmptyBody)

NextFault ==
    \/ ReceiveFault(1)
    \/ protect(1)
    \/ protectFails(1)
    \/ controllerFails(1)
    \/ registerUser(1)
    \/ registerCreate(1)
    \/ loginUser(1)
    \/ getUserProfile(1)
    \/ updateUserProfile(1)
    \/ profileSave(1)
    \/ getTasks(1)
    \/ getTaskById(1)
    \/ createTask(1)
    \/ updateTask(1)
    \/ taskSave(1)
    \/ deleteTask(1)
    \/ taskDelete(1)

SpecFault == Init /\ [][NextFault]_vars

(***************************************************************************)
(* SpecEdit: one request at a time, tasks created and updated with bodies  *)
(* that carry empty, blank, invalid and foreign values                     *)
(***************************************************************************)
InProgress == <<"in_progress">>

EditCreateBodies ==
    { [EmptyBody EXCEPT !.title = TitleT],
      [EmptyBody EXCEPT !.title = TitleT, !.description = DescD,
                        !.status = Completed],
      [EmptyBody EXCEPT !.title = TitleT, !.status = <<>>],
      [EmptyBody EXCEPT !.title = TitleT, !.status = Bogus] }

EditBodies ==
    { EmptyBody,
      [EmptyBody EXCEPT !.title = <<>>],
      [EmptyBody EXCEPT !.description = <<>>],
      [EmptyBody EXCEPT !.status = <<>>],
      [EmptyBody EXCEPT !.title = <<>>, !.description = <<>>, !.status = InProgress],
      [EmptyBody EXCEPT !.title = Blank],
      [EmptyBody EXCEPT !.title = Blank, !.status = Completed],
      [EmptyBody EXCEPT !.description = Blank],
      [EmptyBody EXCEPT !.status = Bogus],
      [EmptyBody EXCEPT !.title = TitleU, !.user = 1],
      [EmptyBody EXCEPT !.title = TitleU, !.user = 2] }

ReceiveEditApi(s) ==
    \/ \E body \in SignUps : Receive(s, "register", <<>>, 0, body)
    \/ \E hdr \in ClientHeaders, body \in EditCreateBodies :
          /\ nextTaskId <= MaxTasksAuth
          /\ Receive(s, "createTask", hdr, 0, body)
    \/ \E hdr \in ClientHeaders, id \in 1..MaxTasksAuth, body \in EditBodies :
          Receive(s, "updateTask", hdr, id, body)

NextEdit ==
    \/ ReceiveEditApi(1)
    \/ protect(1)
    \/ registerUser(1)
    \/ registerCreate(1)
    \/ createTask(1)
    \/ updateTask(1)
    \/ taskSave(1)

SpecEdit == Init /\ [][NextEdit]_vars

(***************************************************************************)
(* SpecTaskRace: requests of one user on its task that overlap             *)
(***************************************************************************)
StatusOnly == [EmptyBody EXCEPT !.status = Completed]
TitleOnly == [EmptyBody EXCEPT !.title = TitleU]

ReceiveTaskRace(s) ==
    \/ /\ users = <<>>
       /\ \A o \in DOMAIN req : req[o].pc \in {"idle", "done"}
       /\ Receive(s, "register", <<>>, 0,
                  [EmptyBody EXCEPT !.name = Jo, !.email = EmailA,
                                    !.password = Secret6])
    \/ \E t \in issued :
          /\ nextTaskId <= MaxTasksAuth
          /\ \A o \in DOMAIN req : req[o].route /= "createTask"
          /\ Receive(s, "createTask", Bearer(t), 0,
                     [EmptyBody EXCEPT !.title = TitleT, !.description = DescD])
    \/ \E t \in issued, id \in 1..MaxTasksAuth, body \in {StatusOnly, TitleOnly} :
          Receive(s, "updateTask", Bearer(t), id, body)
    \/ \E t \in issued, id \in 1..MaxTasksAuth,
          route \in {"getTaskById", "deleteTask"} :
          Receive(s, route, Bearer(t), id, EmptyBody)
    \/ \E t \in issued : Receive(s, "getTasks", Bearer(t), 0, EmptyBody)

NextTaskRace ==
    \E s \in 1..NumSlots :
        \/ ReceiveTaskRace(s)
        \/ protect(s)
        \/ registerUser(s)
        \/ registerCreate(s)
        \/ getTasks(s)
        \/ getTaskById(s)
        \/ createTask(s)
        \/ updateTask(s)
        \/ taskSave(s)
        \/ deleteTask(s)
        \/ taskDelete(s)

SpecTaskRace == InitSlots(NumSlots) /\ [][NextTaskRace]_vars

(***************************************************************************)
(* SpecSession: one account over time; it logs in again, changes its       *)
(* password, its email and its name, and presents the tokens it was given  *)
(***************************************************************************)
SessionSignUp == [EmptyBody EXCEPT !.name = Jo, !.email = EmailA, !.password = Secret6]

SessionLogins ==
    {[EmptyBody EXCEPT !.email = e, !.password = p] :
        e \in {EmailA, EmailB}, p \in {Secret6, Hunter2}}

SessionUpdates ==
    { [EmptyBody EXCEPT !.password = Hunter2],
      [EmptyBody EXCEPT !.email = EmailB],
      [EmptyBody EXCEPT !.name = Al] }

ReceiveSession(s) ==
    \/ Receive(s, "register", <<>>, 0, SessionSignUp)
    \/ \E body \in SessionLogins : Receive(s, "login", <<>>, 0, body)
    \/ \E hdr \in ClientHeaders : Receive(s, "getUserProfile", hdr, 0, EmptyBody)
    \/ \E hdr \in ClientHeaders, body \in SessionUpdates :
          Receive(s, "updateUserProfile", hdr, 0, body)

NextSession ==
    \/ ReceiveSession(1)
    \/ Tick
    \/ protect(1)
    \/ registerUser(1)
    \/ registerCreate(1)
    \/ loginUser(1)
    \/ getUserProfile(1)
    \/ updateUserProfile(1)
    \/ profileSave(1)

SpecSession == Init /\ [][NextSession]_vars

(***************************************************************************)
(* Properties of the task API (Spec)                                       *)
(***************************************************************************)
Done(s) == req[s].pc = "done"

\* the response is the given error envelope, field by field
IsError(res, err) ==
    /\ ~res.success
    /\ res.status = err.status
    /\ res.message = err.message
    /\ res.errors = err.errors
    /\ res.data = err.data

\* the user a request is authenticated as: the id in the token it carries
TokenUser(r) == IF Len(r.hdr) >= 2 THEN r.hdr[2].id ELSE NoUser

\* the request passed protect and reached its controller
Authenticated(r) == r.user /= NoUser

\* the task the request names exists and belongs to someone else
ForeignTask(r) ==
    \E t \in tasks : t._id = r.id /\ t.user /= TokenUser(r)

ById == {"getTaskById", "updateTask", "deleteTask"}

\* C1: getTasks and getTaskById authenticated as user B never return a
\* task whose owner is another user.
C1_NoForeignTaskReturned ==
    \A s \in DOMAIN req :
        (Done(s) /\ req[s].res.status = 200) =>
            /\ req[s].route = "getTasks" =>
                  \A i \in 1..Len(req[s].res.data) :
                      req[s].res.data[i].user = TokenUser(req[s])
            /\ req[s].route = "getTaskById" =>
                  req[s].res.data.user = TokenUser(req[s])

\* B listed its tasks and got one, while another user's task is stored
C1_Witness ==
    \E s \in DOMAIN req :
        /\ Done(s) /\ req[s].route = "getTasks" /\ req[s].res.status = 200
        /\ Len(req[s].res.data) >= 1
        /\ \E t \in tasks : t.user /= TokenUser(req[s])

\* C2 as claimed: with B's valid token, getTaskById, updateTask and
\* deleteTask on a task of A answer 404 "Task not found or not authorized"
\* for every request body.
C2_ForeignAlways404 ==
    \A s \in DOMAIN req :
        (Done(s) /\ req[s].route \in ById /\ Authenticated(req[s])
           /\ ForeignTask(req[s]))
        => IsError(req[s].res, NotFoundError)

\* C2 (amended): with B's valid token, getTaskById, deleteTask, and
\* updateTask with a body that passes validation, on a task of A answer
\* 404 "Task not found or not authorized"; updateTask with a body that
\* fails validation answers 400 "Validation failed".
C2_Foreign404UnlessInvalidBody ==
    \A s \in DOMAIN req :
        (Done(s) /\ req[s].route \in ById /\ Authenticated(req[s])
           /\ ForeignTask(req[s]))
        => IF req[s].route = "updateTask" /\ updateErrors(req[s].body) /= <<>>
           THEN IsError(req[s].res, ValidationFailed(updateErrors(req[s].body)))
           ELSE IsError(req[s].res, NotFoundError)

\* B's valid update of A's task was answered 404
C2_Witness ==
    \E s \in DOMAIN req :
        /\ Done(s) /\ req[s].route = "updateTask" /\ Authenticated(req[s])
        /\ ForeignTask(req[s])
        /\ updateErrors(req[s].body) = <<>>
        /\ req[s].body.title = TitleU
        /\ IsError(req[s].res, NotFoundError)

\* C3: no step of an updateTask or deleteTask issued by a user who is not
\* the task's owner changes the task collection.
C3_NonOwnerLeavesTasks ==
    [][\A s \in DOMAIN req :
          (/\ req[s].route \in {"updateTask", "deleteTask"}
           /\ req[s].pc \notin {"idle", "done"}
           /\ req'[s] /= req[s]
           /\ HasBearer(req[s].hdr) /\ Len(req[s].hdr) >= 2
           /\ ForeignTask(req[s]))
          => tasks' = tasks]_vars

\* B's delete of A's task is over and the task is still stored
C3_Witness ==
    \E s \in DOMAIN req :
        /\ Done(s) /\ req[s].route = "deleteTask" /\ Authenticated(req[s])
        /\ ForeignTask(req[s])
        /\ req[s].res.status = 404

\* the task the request names is in nobody's collection
MissingTask(r) == r.id /= BadId /\ \A t \in tasks : t._id /= r.id

\* the reply a by-id request gets when it finds no task of the caller: it
\* is a function of the request alone
FailureReply(r) ==
    IF r.route = "updateTask" /\ updateErrors(r.body) /= <<>>
    THEN ValidationFailed(updateErrors(r.body))
    ELSE NotFoundError

\* C4: a by-id request gets the same response (status and body) whether
\* the id names no task or a task owned by another user: the step that
\* looks the task up ends the request with a reply fixed by the request.
C4_MissingAndForeignAlike ==
    [][\A s \in DOMAIN req :
          (/\ req[s].pc \in ById
           /\ req'[s] /= req[s]
           /\ Authenticated(req[s])
           /\ (MissingTask(req[s]) \/ ForeignTask(req[s])))
          => (Done(s)' /\ IsError(req'[s].res, FailureReply(req[s])))]_vars

\* B's get of A's task was answered, and the answer is the one an unused
\* id gets
C4_Witness ==
    \E s \in DOMAIN req :
        /\ Done(s) /\ req[s].route = "getTaskById" /\ Authenticated(req[s])
        /\ ForeignTask(req[s])
        /\ IsError(req[s].res, FailureReply(req[s]))
        /\ nextTaskId <= MaxTasks

(***************************************************************************)
(* Properties of the auth middleware (SpecAuth)                            *)
(***************************************************************************)
\* the request is inside the controller of a route mounted behind protect
InController(r) ==
    r.route \in ProtectedRoutes /\ r.pc \notin {"idle", "protect", "done"}

\* the header carries a token that verifies at time t under the
\* configured secret: well-formed, signed with it, not expired
CarriesValidToken(hdr, t) ==
    /\ HasBearer(hdr) /\ Len(hdr) >= 2
    /\ secret /= Unset
    /\ hdr[2].fmt = "jwt" /\ hdr[2].key = secret /\ t < hdr[2].exp

\* C5: on the seven protected routes the controller runs, and any record
\* is written or returned, only after protect verified the bearer token
\* and attached the user; the identity acted on is the id in the token,
\* never a value of the body or the path.
C5_ControllerOnlyAfterProtect ==
    [][\A s \in DOMAIN req :
          /\ (InController(req'[s]) /\ ~InController(req[s])) =>
                /\ req[s].pc = "protect"
                /\ CarriesValidToken(req[s].hdr, now)
                /\ req'[s].user = TokenUser(req[s])
                /\ req'[s].user \in UserIds
          /\ (InController(req'[s]) /\ InController(req[s])) =>
                req'[s].user = req[s].user
          /\ (req[s].route \in ProtectedRoutes /\ req[s].pc \notin {"idle", "done"}
                /\ req'[s] /= req[s]) =>
                /\ (users' /= users \/ tasks' /= tasks
                      \/ (Done(s)' /\ req'[s].res.success))
                   => (InController(req[s]) /\ req[s].user = TokenUser(req[s]))
                /\ \A t \in (tasks' \ tasks) \cup (tasks \ tasks') :
                      t.user = TokenUser(req[s])
                /\ \A i \in UserIds : users'[i] /= users[i] => i = TokenUser(req[s])]_vars

\* user 2 sent a profile update whose body names user 1: user 2 was renamed
C5_Witness ==
    \E s \in DOMAIN req :
        /\ Done(s) /\ req[s].route = "updateUserProfile" /\ req[s].res.success
        /\ TokenUser(req[s]) = 2 /\ req[s].body.user = 1
        /\ users[2].name = Al /\ users[1].name = Jo

\* C6 as claimed: a request with no bearer token in the Authorization
\* header is answered 401 "Not authorized, no token".
C6_NoTokenMeansNoTokenError ==
    \A s \in DOMAIN req :
        (Done(s) /\ req[s].route \in ProtectedRoutes
           /\ (~HasBearer(req[s].hdr) \/ Len(req[s].hdr) < 2))
        => IsError(req[s].res, NoTokenError)

\* C6 (amended): protect has exactly two failure outcomes and calls next
\* in neither: a request whose Authorization header is absent or does not
\* start with "Bearer" gets 401 "Not authorized, no token"; a request whose
\* header starts with "Bearer" but carries no token, or a token that fails
\* verification, gets 401 "Not authorized, token failed"; any other request
\* is passed on.
C6_TwoFailureOutcomes ==
    [][\A s \in DOMAIN req :
          (req[s].pc = "protect" /\ req'[s] /= req[s]) =>
             IF ~HasBearer(req[s].hdr)
             THEN Done(s)' /\ IsError(req'[s].res, NoTokenError)
             ELSE IF ~CarriesValidToken(req[s].hdr, now)
             THEN Done(s)' /\ IsError(req'[s].res, TokenFailedError)
             ELSE req'[s].pc = req[s].route]_vars

\* an expired token that was once handed out was answered "token failed"
C6_Witness ==
    \E s \in DOMAIN req :
        /\ Done(s) /\ req[s].route \in ProtectedRoutes
        /\ Len(req[s].hdr) >= 2 /\ req[s].hdr[2] \in issued
        /\ now >= req[s].hdr[2].exp
        /\ IsError(req[s].res, TokenFailedError)

\* every successful register or login response carries a token that was
\* issued for the id the response names, the account of the given email
AuthRepliesNameTheirUser ==
    \A s \in DOMAIN req :
        (Done(s) /\ req[s].route \in PublicRoutes /\ req[s].res.success) =>
            /\ req[s].res.data.token \in issued
            /\ req[s].res.data.token.id = req[s].res.data.id
            /\ req[s].res.data.id \in UserIds
            /\ users[req[s].res.data.id].email = req[s].body.email

\* C7: with the secret configured, a token returned by a successful
\* register or login, presented as "Bearer <token>" before its expiry,
\* passes protect and the request acts as the user the response named.
C7_IssuedTokenAuthenticates ==
    [][/\ AuthRepliesNameTheirUser'
       /\ \A s \in DOMAIN req :
            (/\ req[s].pc = "protect" /\ req'[s] /= req[s]
             /\ secret /= Unset
             /\ HasBearer(req[s].hdr) /\ Len(req[s].hdr) >= 2
             /\ req[s].hdr[2] \in issued
             /\ now < req[s].hdr[2].exp)
            => (/\ req'[s].pc = req[s].route
                /\ req'[s].user = req[s].hdr[2].id)]_vars

\* a token handed out on day 0 was presented on day 15 and the profile of
\* its user came back
C7_Witness ==
    \E s \in DOMAIN req :
        /\ Done(s) /\ req[s].route = "getUserProfile" /\ req[s].res.status = 200
        /\ Len(req[s].hdr) >= 2 /\ req[s].hdr[2] \in issued
        /\ req[s].hdr[2].iat = 0 /\ now > 0 /\ now < req[s].hdr[2].exp
        /\ req[s].res.data.id = req[s].hdr[2].id

(***************************************************************************)
(* Properties of the account API (SpecUsers, SpecRace)                     *)
(***************************************************************************)
\* C8: in every reachable state the password stored for each user is a
\* hash and equals no plaintext password a client supplied, after
\* registerUser and after an updateUserProfile that changes the password.
C8_StoredPasswordIsHash ==
    \A i \in UserIds :
        /\ IsHash(users[i].password)
        /\ users[i].password \notin PlainPasswords

\* a profile update changed the password: the new one matches the stored
\* hash, the one given at registration no longer does
C8_Witness ==
    \E s \in DOMAIN req :
        /\ Done(s) /\ req[s].route = "updateUserProfile" /\ req[s].res.success
        /\ req[s].body.password = Hunter2
        /\ bcryptCompare(Hunter2, users[req[s].res.data.id].password)
        /\ ~bcryptCompare(Secret6, users[req[s].res.data.id].password)

EmailTaken == sendError(400, "Email is already registered", Undefined)

\* C9 as claimed: once a registerUser for email e has succeeded, every
\* later registerUser with e and otherwise valid input is answered 400
\* "Email is already registered" and leaves the user records unchanged.
C9_OnceRegisteredAlwaysConflict ==
    [][\A s \in DOMAIN req :
          (/\ req[s].pc = "register" /\ req'[s] /= req[s]
           /\ registerErrors(req[s].body) = <<>>
           /\ req[s].body.email \in registered)
          => (/\ Done(s)' /\ IsError(req'[s].res, EmailTaken)
              /\ users' = users)]_vars

\* C9 (amended): a registerUser with otherwise valid input and an email
\* that some user holds is answered 400 "Email is already registered" and
\* leaves the user records unchanged; an email that an updateUserProfile
\* has moved its holder away from can be registered again.
C9_HeldEmailConflicts ==
    [][\A s \in DOMAIN req :
          (/\ req[s].pc = "register" /\ req'[s] /= req[s]
           /\ registerErrors(req[s].body) = <<>>
           /\ \E i \in UserIds : users[i].email = req[s].body.email)
          => (/\ Done(s)' /\ IsError(req'[s].res, EmailTaken)
              /\ users' = users)]_vars

\* a second registration with a registered email was answered 400
C9_Witness ==
    \E s \in DOMAIN req :
        /\ Done(s) /\ req[s].route = "register"
        /\ registerErrors(req[s].body) = <<>>
        /\ req[s].body.email \in registered
        /\ IsError(req[s].res, EmailTaken)
        /\ Len(users) = 1

\* C10: in every reachable state, under every interleaving of
\* registerUser and updateUserProfile requests, no two user records hold
\* the same email.
C10_EmailsUnique ==
    \A i \in UserIds : \A j \in UserIds :
        i /= j => users[i].email /= users[j].email

\* two accounts exist and the unique index has refused a write that an
\* overlapping request made with a taken email
C10_Witness ==
    /\ Len(users) = 2
    /\ \E s \in DOMAIN req :
          /\ Done(s) /\ req[s].res.status = 500
          /\ \E i \in UserIds : users[i].email = req[s].body.email

\* the email of the login belongs to no user
NoSuchAccount(r) == \A i \in UserIds : users[i].email /= r.body.email

\* the email of the login belongs to a user whose password is another one
WrongPassword(r) ==
    \E i \in UserIds :
        users[i].email = r.body.email /\ ~matchPassword(users[i], r.body.password)

\* C11: loginUser with a non-empty email and password gives the identical
\* response, 401 "Invalid email or password" with the same body, when the
\* email belongs to no user and when it belongs to a user but the password
\* is wrong; no token is issued in either case.
C11_LoginFailuresAlike ==
    [][\A s \in DOMAIN req :
          (/\ req[s].pc = "login" /\ req'[s] /= req[s]
           /\ Truthy(req[s].body.email) /\ Truthy(req[s].body.password)
           /\ (NoSuchAccount(req[s]) \/ WrongPassword(req[s])))
          => (/\ Done(s)'
              /\ IsError(req'[s].res, InvalidCredentials)
              /\ issued' = issued)]_vars

\* a login with the email of an account and a wrong password was refused
\* while another email is still free: a login with that one gets the same
C11_Witness ==
    \E s \in DOMAIN req :
        /\ Done(s) /\ req[s].route = "login"
        /\ WrongPassword(req[s])
        /\ IsError(req[s].res, InvalidCredentials)
        /\ \E e \in {EmailA, EmailB} : \A i \in UserIds : users[i].email /= e

(***************************************************************************)
(* Properties of creating and listing tasks (SpecQuery, Spec)              *)
(***************************************************************************)
\* the text contains s as a substring, letter case ignored
ContainsIgnoringCase(text, s) ==
    /\ text /= Undefined
    /\ \E i \in 1..(Len(text) + 1) :
          /\ i + Len(s) - 1 <= Len(text)
          /\ \A k \in 1..Len(s) : Lower(s[k]) = Lower(text[i + k - 1])

\* the tasks the list is to return for a query
Wanted(r) ==
    {t \in tasks :
        /\ t.user = TokenUser(r)
        /\ Truthy(r.body.search) =>
              \/ ContainsIgnoringCase(t.title, r.body.search)
              \/ ContainsIgnoringCase(t.description, r.body.search)
        /\ Truthy(r.body.status) => t.status = r.body.status}

Returned(r) == {r.res.data[i] : i \in 1..Len(r.res.data)}

\* C12 as claimed: getTasks with search s and/or status t returns exactly
\* the acting user's tasks whose title or description contains s as a
\* case-insensitive substring (when s is supplied) and whose status equals
\* t (when t is supplied); with neither, all of the user's tasks.
C12_SearchIsSubstring ==
    \A s \in DOMAIN req :
        (Done(s) /\ req[s].route = "getTasks" /\ req[s].res.status = 200)
        => Returned(req[s]) = Wanted(req[s])

\* C13: the array getTasks returns is ordered by creation time, newest
\* first: of any two returned tasks the one created later comes earlier;
\* no step, an updateTask included, changes the creation time of a stored
\* task, so an update does not move a task in the list.
C13_NewestFirst ==
    [][/\ \A s \in DOMAIN req :
            (Done(s)' /\ req'[s].route = "getTasks" /\ req'[s].res.status = 200)
            => \A i \in 1..Len(req'[s].res.data) :
                  \A j \in 1..Len(req'[s].res.data) :
                      i < j => req'[s].res.data[i].createdAt
                                  > req'[s].res.data[j].createdAt
       /\ \A t \in tasks : \A u \in tasks' :
            t._id = u._id => u.createdAt = t.createdAt]_vars

\* a list of two tasks: the older one has been retitled by an updateTask
\* and comes second
C13_Witness ==
    \E s \in DOMAIN req :
        /\ Done(s) /\ req[s].route = "getTasks" /\ req[s].res.status = 200
        /\ Len(req[s].res.data) = 2
        /\ req[s].res.data[1]._id = 2 /\ req[s].res.data[1].title = TitleT
        /\ req[s].res.data[2]._id = 1 /\ req[s].res.data[2].title = TitleU

\* the stored task with the id, or NoTask
Stored(ts, id) ==
    IF \E t \in ts : t._id = id THEN CHOOSE t \in ts : t._id = id ELSE NoTask

\* C14: a successful updateTask by the owner changes only the fields the
\* body supplies: each of title, description and status that is absent
\* from the body keeps its prior value, the owner is unchanged, and no
\* other task is touched.
C14_UpdateKeepsAbsentFields ==
    [][\A s \in DOMAIN req :
          (/\ req[s].route = "updateTask" /\ req[s].pc = "task_save"
           /\ Done(s)' /\ req'[s].res.status = 200)
          => LET body == req[s].body
                 before == Stored(tasks, req[s].id)
                 after == Stored(tasks', req[s].id) IN
             /\ before /= NoTask /\ after /= NoTask
             /\ before.user = TokenUser(req[s])
             /\ body.title = Undefined => after.title = before.title
             /\ body.description = Undefined =>
                    after.description = before.description
             /\ body.status = Undefined => after.status = before.status
             /\ body.title /= Undefined /\ Truthy(body.title) =>
                    after.title = body.title
             /\ body.status /= Undefined /\ Truthy(body.status) =>
                    after.status = body.status
             /\ after.user = before.user
             /\ after._id = before._id
             /\ tasks' \ {after} = tasks \ {before}]_vars

\* an update of the title alone succeeded on a task created with a
\* description and the status "completed": both are as they were
C14_Witness ==
    \E s \in DOMAIN req :
        /\ Done(s) /\ req[s].route = "updateTask" /\ req[s].res.status = 200
        /\ req[s].body.title = TitleU
        /\ req[s].body.description = Undefined /\ req[s].body.status = Undefined
        /\ LET t == Stored(tasks, req[s].id) IN
           /\ t /= NoTask
           /\ t.title = TitleU /\ t.description = DescD
           /\ t.status = Completed /\ t.user = TokenUser(req[s])

\* C15: every task that enters the collection is created by a createTask
\* step, has as owner the user the request's token identifies, whatever
\* user field the body carries, and has the status "pending" when the body
\* supplies none.
C15_CreatedTaskOwnedByCaller ==
    [][\A t \in tasks' :
          (\A u \in tasks : u._id /= t._id) =>
             \E s \in DOMAIN req :
                /\ req[s].pc = "createTask" /\ Done(s)'
                /\ req'[s].res.status = 201 /\ req'[s].res.data = t
                /\ t.user = TokenUser(req[s]) /\ t.user \in UserIds
                /\ t.title = req[s].body.title
                /\ req[s].body.status = Undefined => t.status = Pending]_vars

\* user 2 created a task with a body that names user 1 and no status: it
\* belongs to user 2 and is pending
C15_Witness ==
    \E s \in DOMAIN req :
        /\ Done(s) /\ req[s].route = "createTask" /\ req[s].res.status = 201
        /\ req[s].body.user = 1 /\ TokenUser(req[s]) = 2
        /\ req[s].body.status = Undefined
        /\ req[s].res.data \in tasks
        /\ req[s].res.data.user = 2 /\ req[s].res.data.status = Pending

\* the title is missing, empty or whitespace-only
TitleBlank(body) == body.title = Undefined \/ Len(Trim(body.title)) = 0

TitleMessage == "Title is required and must not be empty"

\* C16 as claimed: createTask with a missing, empty or whitespace-only
\* title, or with a supplied status outside {pending, in_progress,
\* completed}, is answered 400 "Validation failed" with one message per
\* failed check and creates no task.
C16_InvalidCreateRejected ==
    [][\A s \in DOMAIN req :
          LET body == req[s].body
              statusBad == body.status /= Undefined /\ body.status \notin StatusEnum
              messages == (IF TitleBlank(body) THEN <<TitleMessage>> ELSE <<>>)
                          \o (IF statusBad THEN StatusError ELSE <<>>) IN
          (/\ req[s].pc = "createTask" /\ req'[s] /= req[s]
           /\ (TitleBlank(body) \/ statusBad))
          => (/\ Done(s)' /\ IsError(req'[s].res, ValidationFailed(messages))
              /\ tasks' = tasks)]_vars

\* C16 (amended): createTask with a missing, empty or whitespace-only
\* title, or with a non-empty status outside {pending, in_progress,
\* completed}, is answered 400 "Validation failed" with one message per
\* failed check and creates no task; an empty-string status counts as no
\* status.
C16_InvalidCreateRejectedUnlessEmptyStatus ==
    [][\A s \in DOMAIN req :
          LET body == req[s].body
              statusBad == /\ body.status /= Undefined /\ body.status /= <<>>
                           /\ body.status \notin StatusEnum
              messages == (IF TitleBlank(body) THEN <<TitleMessage>> ELSE <<>>)
                          \o (IF statusBad THEN StatusError ELSE <<>>) IN
          /\ (/\ req[s].pc = "createTask" /\ req'[s] /= req[s]
              /\ (TitleBlank(body) \/ statusBad))
             => (/\ Done(s)' /\ IsError(req'[s].res, ValidationFailed(messages))
                 /\ tasks' = tasks)
          /\ (/\ req[s].pc = "createTask" /\ req'[s] /= req[s]
              /\ ~TitleBlank(body) /\ body.status = <<>>)
             => (/\ Done(s)' /\ req'[s].res.status = 201
                 /\ req'[s].res.data.status = Pending
                 /\ req'[s].res.data \in tasks')]_vars

\* a createTask without a title and with the status "bogus" was answered
\* with both messages, and the collection is still empty
C16_Witness ==
    \E s \in DOMAIN req :
        /\ Done(s) /\ req[s].route = "createTask" /\ Authenticated(req[s])
        /\ req[s].body.title = Undefined /\ req[s].body.status = Bogus
        /\ IsError(req[s].res, ValidationFailed(<<TitleMessage>> \o StatusError))
        /\ tasks = {}

TaskDeleted == sendSuccess(200, Null, "Task deleted successfully")

\* the id was handed out to a task and the task is no longer stored
DeletedId(id) == id \in 1..(nextTaskId - 1) /\ \A t \in tasks : t._id /= id

\* a task leaves the collection only in the step in which a deleteTask of
\* its owner is answered 200 with null data; that step removes the task
\* the request names, and a removed task never comes back
DeleteRemovesForGood ==
    /\ \A t \in tasks :
          (\A u \in tasks' : u._id /= t._id) =>
             \E s \in DOMAIN req :
                /\ req[s].route = "deleteTask" /\ req[s].pc = "task_delete"
                /\ req[s].id = t._id /\ TokenUser(req[s]) = t.user
                /\ Done(s)' /\ req'[s].res = TaskDeleted
    /\ \A s \in DOMAIN req :
          (req[s].pc = "task_delete" /\ Done(s)' /\ req'[s].res.status = 200)
          => (req'[s].res = TaskDeleted /\ \A u \in tasks' : u._id /= req[s].id)
    /\ \A id \in 1..MaxTasks : DeletedId(id) => DeletedId(id)'

\* C17 as claimed: after deleteTask has returned 200 with null data for a
\* task id, every later getTaskById, updateTask or deleteTask on that id
\* returns the 404 error, and getTasks no longer contains the task.
C17_DeletedAlways404 ==
    [][/\ DeleteRemovesForGood
       /\ \A s \in DOMAIN req :
            /\ (/\ req[s].pc \in ById /\ req'[s] /= req[s]
                /\ DeletedId(req[s].id))
               => (Done(s)' /\ IsError(req'[s].res, NotFoundError))
            /\ (req[s].pc = "getTasks" /\ Done(s)' /\ req'[s].res.status = 200)
               => \A i \in 1..Len(req'[s].res.data) :
                     ~DeletedId(req'[s].res.data[i]._id)]_vars

\* C17 (amended): after deleteTask has returned 200 with null data for a
\* task id, every later getTaskById and deleteTask on that id, and every
\* updateTask with a body that passes validation, returns the 404 error;
\* an updateTask with a body that fails validation returns 400
\* "Validation failed"; getTasks no longer contains the task.
C17_Deleted404UnlessInvalidBody ==
    [][/\ DeleteRemovesForGood
       /\ \A s \in DOMAIN req :
            /\ (/\ req[s].pc \in ById /\ req'[s] /= req[s]
                /\ DeletedId(req[s].id))
               => (/\ Done(s)'
                   /\ IF req[s].route = "updateTask"
                         /\ updateErrors(req[s].body) /= <<>>
                      THEN IsError(req'[s].res,
                                   ValidationFailed(updateErrors(req[s].body)))
                      ELSE IsError(req'[s].res, NotFoundError))
            /\ (req[s].pc = "getTasks" /\ Done(s)' /\ req'[s].res.status = 200)
               => \A i \in 1..Len(req'[s].res.data) :
                     ~DeletedId(req'[s].res.data[i]._id)]_vars

\* the only user there is deleted its task 1, and its later get of task 1
\* was answered 404
C17_Witness ==
    \E s \in DOMAIN req :
        /\ Len(users) = 1
        /\ Done(s) /\ req[s].route = "getTaskById" /\ Authenticated(req[s])
        /\ req[s].id = 1 /\ DeletedId(1)
        /\ IsError(req[s].res, NotFoundError)

(***************************************************************************)
(* Properties of the profile routes (SpecUsers)                            *)
(***************************************************************************)
\* C18: getUserProfile and updateUserProfile read and write only the
\* record of the user the token identifies: no step of such a request,
\* whatever its body, changes the name, email or password hash of another
\* user or adds a user, a successful reply carries the id of the token's
\* user, and getUserProfile returns the name and email stored for it.
C18_ProfileOnlyOwnRecord ==
    [][\A s \in DOMAIN req :
          (/\ req[s].route \in ProfileRoutes
           /\ req[s].pc \notin {"idle", "done"}
           /\ req'[s] /= req[s])
          => LET me == TokenUser(req[s]) IN
             /\ Len(users') = Len(users)
             /\ \A i \in UserIds : i /= me => users'[i] = users[i]
             /\ (Done(s)' /\ req'[s].res.success) =>
                   /\ me \in UserIds
                   /\ req'[s].res.data.id = me
             /\ (Done(s)' /\ req'[s].res.success
                   /\ req[s].route = "getUserProfile") =>
                   /\ req'[s].res.data.name = users[me].name
                   /\ req'[s].res.data.email = users[me].email]_vars

\* user 2 changed its name, email and password in one update; user 1 has
\* the name and the password it registered with
C18_Witness ==
    \E s \in DOMAIN req :
        /\ Done(s) /\ req[s].route = "updateUserProfile" /\ req[s].res.success
        /\ TokenUser(req[s]) = 2
        /\ req[s].body.name = Al /\ req[s].body.password = Hunter2
        /\ users[2].name = Al /\ bcryptCompare(Hunter2, users[2].password)
        /\ users[1].name /= Al /\ bcryptCompare(Secret6, users[1].password)

\* the checks of validation.util on the fields of a profile body
NameInvalid(body) == Len(Trim(body.name)) < MinNameLen
EmailInvalid(body) == ~validateEmail(body.email)
PasswordInvalid(body) == Len(body.password) < MinPasswordLen

\* C19 as claimed: if any supplied name, email or password of an
\* updateUserProfile is invalid, the response is 400 "Validation failed"
\* and the user's name, email and password hash are unchanged, also when
\* other supplied fields are valid.
C19_InvalidProfileRejected ==
    [][\A s \in DOMAIN req :
          LET body == req[s].body IN
          (/\ req[s].pc = "updateUserProfile" /\ req'[s] /= req[s]
           /\ \/ body.name /= Undefined /\ NameInvalid(body)
              \/ body.email /= Undefined /\ EmailInvalid(body)
              \/ body.password /= Undefined /\ PasswordInvalid(body))
          => (/\ Done(s)'
              /\ ~req'[s].res.success /\ req'[s].res.status = 400
              /\ req'[s].res.message = "Validation failed"
              /\ users' = users)]_vars

\* C19 (amended): updateUserProfile validates every supplied non-empty
\* field before writing anything: if any of them is invalid the response
\* is 400 "Validation failed" with one message per invalid field and the
\* user records are unchanged, also when other supplied fields are valid;
\* a field supplied as the empty string is treated as absent.  Nothing is
\* written before user.save().
C19_InvalidNonEmptyProfileRejected ==
    [][\A s \in DOMAIN req :
          LET body == req[s].body
              badName == Truthy(body.name) /\ NameInvalid(body)
              badEmail == Truthy(body.email) /\ EmailInvalid(body)
              badPassword == Truthy(body.password) /\ PasswordInvalid(body)
              messages ==
                 (IF badName THEN <<"Name must be at least 2 characters long">>
                  ELSE <<>>)
                 \o (IF badEmail THEN <<"Please provide a valid email address">>
                     ELSE <<>>)
                 \o (IF badPassword
                     THEN <<"Password must be at least 6 characters long">>
                     ELSE <<>>) IN
          /\ (req[s].pc = "updateUserProfile" /\ req'[s] /= req[s])
             => users' = users
          /\ (/\ req[s].pc = "updateUserProfile" /\ req'[s] /= req[s]
              /\ (badName \/ badEmail \/ badPassword))
             => (Done(s)' /\ IsError(req'[s].res, ValidationFailed(messages)))
          /\ (/\ req[s].pc = "updateUserProfile" /\ req'[s] /= req[s]
              /\ ~(badName \/ badEmail \/ badPassword))
             => req'[s].pc = "profile_save"]_vars

\* an update with a valid name, an invalid email and a valid password was
\* answered 400, and the user has its old name and password
C19_Witness ==
    \E s \in DOMAIN req :
        /\ Done(s) /\ req[s].route = "updateUserProfile"
        /\ req[s].body.name = Al /\ req[s].body.email = NoDotEmail
        /\ req[s].body.password = Hunter2
        /\ IsError(req[s].res,
                   ValidationFailed(<<"Please provide a valid email address">>))
        /\ TokenUser(req[s]) \in UserIds
        /\ users[TokenUser(req[s])].name /= Al
        /\ bcryptCompare(Secret6, users[TokenUser(req[s])].password)

(***************************************************************************)
(* Properties of failing persistence calls (SpecFault)                     *)
(***************************************************************************)
\* the step answers the request with a 500-class error envelope
Answers500(s) ==
    /\ Done(s)'
    /\ ~req'[s].res.success
    /\ req'[s].res.status \in 500..599

\* C20 as claimed: a failure of any persistence call made while handling a
\* request, in the auth middleware or in a controller, is answered with a
\* 500-class error envelope (success = false) and ends the request: the
\* call is not retried.
C20_PersistenceFailureIs500 ==
    [][\A s \in DOMAIN req :
          (protectFails(s) \/ controllerFails(s)) => Answers500(s)]_vars

(***************************************************************************)
(* Properties of duplicate emails (SpecRace, SpecUsers)                    *)
(***************************************************************************)
\* C21 as claimed: when registerUser requests with the same valid email
\* overlap, in any interleaving of their lookup and create steps, exactly
\* one creates a user and every other one is answered 400 "Email is
\* already registered".
C21_RaceLoserGetsConflict ==
    /\ \A i \in UserIds : \A j \in UserIds :
          i /= j => users[i].email /= users[j].email
    /\ \A s \in DOMAIN req :
          (/\ Done(s) /\ req[s].route = "register"
           /\ registerErrors(req[s].body) = <<>>
           /\ ~req[s].res.success)
          => IsError(req[s].res, EmailTaken)

\* the email the profile update supplies is held by a different user
EmailOfAnother(r) ==
    /\ Truthy(r.body.email)
    /\ \E i \in UserIds : i /= TokenUser(r) /\ users[i].email = r.body.email

\* C22 as claimed: an updateUserProfile that supplies an email already
\* held by a different user is rejected as a duplicate-email conflict with
\* status 400 and leaves both users' records unchanged.
C22_DuplicateEmailUpdateIs400 ==
    [][\A s \in DOMAIN req :
          (/\ req[s].route = "updateUserProfile"
           /\ req[s].pc \in {"updateUserProfile", "profile_save"}
           /\ profileErrors(req[s].body) = <<>>
           /\ EmailOfAnother(req[s])
           /\ Done(s)')
          => (/\ ~req'[s].res.success
              /\ req'[s].res.status = 400
              /\ users' = users)]_vars

(***************************************************************************)
(* Properties of task fields (SpecEdit)                                    *)
(***************************************************************************)
\* C23: in every reachable state, after any sequence of createTask and
\* updateTask requests with arbitrary bodies, the status of every stored
\* task is one of pending, in_progress, completed.
C23_StatusInEnum ==
    \A t \in tasks : t.status \in {Pending, InProgress, Completed}

\* a task was made "in_progress" by an update, and a later update to the
\* status "bogus" was refused
C23_Witness ==
    \E s \in DOMAIN req :
        /\ Done(s) /\ req[s].route = "updateTask"
        /\ req[s].body.status = Bogus
        /\ IsError(req[s].res, ValidationFailed(StatusError))
        /\ \E t \in tasks : t._id = req[s].id /\ t.status = InProgress

\* C24: the owner of a task never changes after creation: no step of any
\* request by any user, an updateTask whose body carries a user field
\* included, changes the owner of a stored task.
C24_OwnerNeverChanges ==
    [][\A t \in tasks : \A u \in tasks' :
          u._id = t._id => u.user = t.user]_vars

\* user 2 retitled its task with a body that names user 1 as the owner:
\* the title is the new one, the owner is still user 2
C24_Witness ==
    \E s \in DOMAIN req :
        /\ Done(s) /\ req[s].route = "updateTask" /\ req[s].res.status = 200
        /\ req[s].body.user = 1 /\ TokenUser(req[s]) = 2
        /\ \E t \in tasks :
              t._id = req[s].id /\ t.title = TitleU /\ t.user = 2

\* the request is an updateTask of the owner of a stored task
OwnUpdate(r) ==
    /\ r.route = "updateTask"
    /\ \E t \in tasks : t._id = r.id /\ t.user = TokenUser(r)

\* the title is supplied, is not empty, and is made of whitespace only
WhitespaceTitle(body) ==
    /\ body.title /= Undefined /\ body.title /= <<>>
    /\ Len(Trim(body.title)) = 0

\* the status is supplied, is not empty, and is outside the enum
ForeignStatus(body) ==
    /\ body.status /= Undefined /\ body.status /= <<>>
    /\ body.status \notin {Pending, InProgress, Completed}

\* C25: in updateTask a supplied empty-string title, description or
\* status is treated as not supplied: the request of the owner succeeds
\* with 200 and the field keeps its prior value, so no updateTask sets
\* the title or the description to the empty string; a whitespace-only
\* title is rejected with 400.
C25_EmptyFieldKeepsValue ==
    [][\A s \in DOMAIN req :
          LET body == req[s].body
              before == Stored(tasks, req[s].id)
              after == Stored(tasks', req[s].id) IN
          /\ (/\ req[s].pc = "updateTask" /\ req'[s] /= req[s]
              /\ WhitespaceTitle(body))
             => (/\ Done(s)' /\ ~req'[s].res.success
                 /\ req'[s].res.status = 400 /\ tasks' = tasks)
          /\ (/\ req[s].pc = "updateTask" /\ req'[s] /= req[s]
              /\ OwnUpdate(req[s])
              /\ ~WhitespaceTitle(body) /\ ~ForeignStatus(body))
             => req'[s].pc = "task_save"
          /\ (req[s].pc = "task_save" /\ req'[s] /= req[s])
             => (/\ Done(s)' /\ req'[s].res.status = 200
                 /\ before /= NoTask /\ after /= NoTask
                 /\ body.title = <<>> => after.title = before.title
                 /\ body.description = <<>> =>
                       after.description = before.description
                 /\ body.status = <<>> => after.status = before.status
                 /\ after.title /= <<>>
                 /\ after.description = <<>> => before.description = <<>>)]_vars

\* an update with an empty title, an empty description and the status
\* "in_progress" succeeded: the task has the title and the description it
\* was created with, and the new status
C25_Witness ==
    \E s \in DOMAIN req :
        /\ Done(s) /\ req[s].route = "updateTask" /\ req[s].res.status = 200
        /\ req[s].body.title = <<>> /\ req[s].body.description = <<>>
        /\ req[s].body.status = InProgress
        /\ \E t \in tasks :
              /\ t._id = req[s].id /\ t.title = TitleT
              /\ t.description = DescD /\ t.status = InProgress

(***************************************************************************)
(* Properties of overlapping task requests (SpecTaskRace)                  *)
(***************************************************************************)
\* C26: once deleteTask has answered 200 for a task, the task is never
\* stored again and neither getTasks nor getTaskById returns it, under
\* every interleaving with an updateTask of the owner that read the task
\* before the delete and saves it after the delete.
C26_DeletedStaysDeleted ==
    [][/\ \A s \in DOMAIN req :
            (req[s].pc = "task_delete" /\ Done(s)' /\ req'[s].res.status = 200)
            => DeletedId(req[s].id)'
       /\ \A id \in 1..MaxTasksAuth : DeletedId(id) => DeletedId(id)'
       /\ \A s \in DOMAIN req :
            /\ (req[s].pc = "getTaskById" /\ Done(s)' /\ req'[s].res.status = 200)
               => ~DeletedId(req'[s].res.data._id)
            /\ (req[s].pc = "getTaskById" /\ req'[s] /= req[s]
                  /\ DeletedId(req[s].id))
               => (Done(s)' /\ IsError(req'[s].res, NotFoundError))
            /\ (req[s].pc = "getTasks" /\ Done(s)' /\ req'[s].res.status = 200)
               => \A i \in 1..Len(req'[s].res.data) :
                     ~DeletedId(req'[s].res.data[i]._id)]_vars

\* a delete was answered 200 and an update that had read the task before
\* saved it afterwards: the save failed and the task is not stored
C26_Witness ==
    \E s \in DOMAIN req : \E d \in DOMAIN req :
        /\ Done(d) /\ req[d].route = "deleteTask" /\ req[d].res.status = 200
        /\ Done(s) /\ req[s].route = "updateTask" /\ req[s].id = req[d].id
        /\ IsError(req[s].res, ServerError("DocumentNotFoundError"))
        /\ DeletedId(req[s].id)

\* two updates of the same task were both answered 200, one that supplied
\* the status only and one that supplied the title only
BothUpdated(a, b) ==
    /\ a /= b
    /\ Done(a) /\ req[a].route = "updateTask" /\ req[a].res.status = 200
    /\ Done(b) /\ req[b].route = "updateTask" /\ req[b].res.status = 200
    /\ req[a].id = req[b].id
    /\ req[a].body = StatusOnly /\ req[b].body = TitleOnly

\* C27: when two updateTask requests of the owner on the same task
\* overlap, one that supplies only the status and one that supplies only
\* the title, and both are answered 200, the stored task carries the new
\* status and the new title: a save writes the fields its body supplied
\* and leaves every other field as it is stored, not as it was read.
C27_OverlappingUpdatesMerge ==
    [][/\ \A a \in DOMAIN req : \A b \in DOMAIN req :
            (BothUpdated(a, b)' /\ Stored(tasks', req'[a].id) /= NoTask)
            => (/\ Stored(tasks', req'[a].id).status = Completed
                /\ Stored(tasks', req'[a].id).title = TitleU)
       /\ \A s \in DOMAIN req :
            (req[s].pc = "task_save" /\ Done(s)' /\ req'[s].res.status = 200)
            => LET body == req[s].body
                   before == Stored(tasks, req[s].id)
                   after == Stored(tasks', req[s].id) IN
               /\ before /= NoTask /\ after /= NoTask
               /\ body.title = Undefined => after.title = before.title
               /\ body.status = Undefined => after.status = before.status
               /\ body.description = Undefined =>
                      after.description = before.description
               /\ Truthy(body.title) => after.title = body.title
               /\ Truthy(body.status) => after.status = body.status]_vars

\* both updates read the task before either saved (each reply carries the
\* value the other one replaced), and the stored task has both new values
C27_Witness ==
    \E a \in DOMAIN req : \E b \in DOMAIN req :
        /\ BothUpdated(a, b)
        /\ req[a].res.data.title = TitleT /\ req[a].res.data.status = Completed
        /\ req[b].res.data.title = TitleU /\ req[b].res.data.status = Pending
        /\ Stored(tasks, req[a].id) /= NoTask
        /\ Stored(tasks, req[a].id).status = Completed
        /\ Stored(tasks, req[a].id).title = TitleU

\* C28: the token issuer and the protect middleware agree on the signing
\* secret in every configuration, also when JWT_SECRET is unset: a token
\* that register or login handed out, presented as "Bearer <token>" before
\* its expiry, passes protect.
C28_IssuerAndMiddlewareAgree ==
    [][\A s \in DOMAIN req :
            (/\ req[s].pc = "protect" /\ req'[s] /= req[s]
             /\ HasBearer(req[s].hdr) /\ Len(req[s].hdr) >= 2
             /\ req[s].hdr[2] \in issued
             /\ now < req[s].hdr[2].exp)
            => (/\ req[s].hdr[2].key = generateToken(req[s].hdr[2].id, secret, now).key
                /\ req'[s].pc = req[s].route)]_vars

\* C29: with the secret configured, a token issued to a user is accepted
\* by protect, as that user, in every state before its own expiry, whatever
\* happened since: a later login of the user, or a profile update that
\* changed the password or the email and handed out a new token, does not
\* invalidate it.
C29_TokenOutlivesReissue ==
    \A t \in issued :
        (secret /= Unset /\ now < t.exp) =>
            LET o == protectOutcome(Bearer(t), secret, now) IN
            /\ o.next
            /\ o.user = t.id
            /\ t.id \in UserIds

\* the token of the registration on day 0 fetched the profile on day 15,
\* after the user had changed password and email and been given a token
\* of day 15
C29_Witness ==
    \E s \in DOMAIN req :
        /\ Done(s) /\ req[s].route = "getUserProfile" /\ req[s].res.status = 200
        /\ Len(req[s].hdr) >= 2 /\ req[s].hdr[2] \in issued
        /\ req[s].hdr[2].iat = 0 /\ now = DaysPerTick
        /\ \E newer \in issued :
              newer.id = req[s].hdr[2].id /\ newer.iat = DaysPerTick
        /\ ~ matchPassword(users[req[s].hdr[2].id], Secret6)
        /\ users[req[s].hdr[2].id].email = EmailB
        /\ req[s].res.data.email = EmailB

\* the stored hash of `user` accepts the password p and no other password
\* a client sends
AcceptsOnly(user, p) ==
    \A q \in PlainPasswords : matchPassword(user, q) <=> q = p

\* slot s is at user.save() of a profile update that supplied a password
SetsPassword(s) ==
    req[s].pc = "profile_save" /\ Truthy(req[s].body.password)

\* C30: the password that logs a user in is the one most recently set
\* for them.  A registration stores a hash that accepts the given password
\* only; a successful profile update that supplies a password stores a
\* hash that accepts the new password only (the old one is rejected); any
\* other step, a profile update without a password included, leaves every
\* stored hash as it is; and loginUser answers 200 exactly when the email
\* is the current email of a user whose stored hash accepts the password,
\* and 401 otherwise when both fields are given.
C30_LoginAcceptsLatestPassword ==
    [][/\ \A s \in DOMAIN req :
            (req[s].pc = "register_create" /\ Done(s)' /\ req'[s].res.success)
            => (/\ Len(users') = Len(users) + 1
                /\ AcceptsOnly(users'[Len(users')], req[s].body.password))
       /\ \A s \in DOMAIN req :
            (SetsPassword(s) /\ Done(s)' /\ req'[s].res.success)
            => AcceptsOnly(users'[req[s].orig._id], req[s].body.password)
       /\ \A i \in UserIds :
            users'[i].password /= users[i].password
            => \E s \in DOMAIN req :
                  /\ SetsPassword(s) /\ req[s].orig._id = i
                  /\ Done(s)' /\ req'[s].res.success
       /\ \A s \in DOMAIN req :
            (req[s].pc = "login" /\ Done(s)')
            => LET body == req[s].body
                   known == \E i \in UserIds :
                               /\ users[i].email = body.email
                               /\ matchPassword(users[i], body.password) IN
               /\ req'[s].res.status = 200 <=> known
               /\ (~known /\ Truthy(body.email) /\ Truthy(body.password))
                     => IsError(req'[s].res, InvalidCredentials)]_vars

\* a user changed the password to "hunter2" and the email to b@x.y; a
\* login with the new email and the password of the registration was
\* answered 401
C30_Witness ==
    \E s \in DOMAIN req : \E i \in UserIds :
        /\ Done(s) /\ req[s].route = "login" /\ req[s].res.status = 401
        /\ req[s].body.email = EmailB /\ req[s].body.password = Secret6
        /\ users[i].email = EmailB
        /\ EmailA \in registered /\ EmailB \notin registered
        /\ AcceptsOnly(users[i], Hunter2)

====
